---- MODULE Spec2Model ----
(***************************************************************************)
(* Commission ledger and payout allocator of the marketing backend.        *)
(*                                                                         *)
(* The repository carries two copies of the admin controller:              *)
(*   src/src/controllers/admin.controller.ts   (build "admin")             *)
(*   src/unnamed/part_002                      (build "part_002")          *)
(* updatePayoutStatus is the same in both; createPayout differs (balance   *)
(* check, minimum threshold, candidate order).  The variable build fixes   *)
(* which copy serves the requests of a behaviour.                          *)
(*                                                                         *)
(* The store (Prisma over PostgreSQL) is the record                        *)
(*   [commission, payout, payoutCommission]                                *)
(* for the payout handlers, which read neither Product nor Order (both     *)
(* tables stay empty in their specifications), and the record              *)
(*   [commission, order, product]                                          *)
(* for the order handlers (SpecOrders).                                    *)
(* A handler is a chain of store round trips (one per await).  Step runs   *)
(* one round trip together with the synchronous code that follows it, Run  *)
(* runs a handler to its response.                                         *)
(***************************************************************************)
EXTENDS Integers, Sequences, FiniteSets, TLC

(***************************************************************************)
(* Bounds of the model.                                                    *)
(***************************************************************************)
NumCommissions == 3
MaxPayouts == 2
MaxCalls == 3
MaxStampedPayouts == 1

Agents == {"a1", "a2"}
Procs == {1, 2}
Builds == {"admin", "part_002"}
CommissionAmounts == {60, 110}
RequestAmounts == {0, 45, 50, 120}
Times == {1, 2}
NoTime == 0
NoTx == "none"
TransactionIds == {NoTx, "tx1"}

CommissionIds == 1..NumCommissions
PayoutIdInputs == 1..(MaxPayouts + 1)

(***************************************************************************)
(* Enumerations of the schema and the status strings a caller may send.    *)
(***************************************************************************)
CommissionStatus == {"PENDING", "APPROVED", "PAID", "BLOCKED"}
PayoutStatus == {"PENDING", "APPROVED", "PAID", "REJECTED"}
StatusInputs == PayoutStatus \cup {"CANCELLED"}

minimumPayoutThreshold == 50

VARIABLES build, commission, payout, payoutCommission, call, product, order

vars == <<build, commission, payout, payoutCommission, call, product, order>>

DB == [commission |-> commission, payout |-> payout,
       payoutCommission |-> payoutCommission]

(***************************************************************************)
(* Arithmetic helpers: Math.min, Math.max and Array.reduce with +.         *)
(***************************************************************************)
Min(a, b) == IF a < b THEN a ELSE b

Max(a, b) == IF a > b THEN a ELSE b

RECURSIVE SumBy(_, _)
SumBy(S, f) ==
    IF S = {} THEN 0
    ELSE LET x == CHOOSE y \in S : TRUE
         IN  f[x] + SumBy(S \ {x}, f)

(***************************************************************************)
(* ORDER BY key ASC.  Rows with equal keys come back in an order the       *)
(* database chooses; tie is that choice (a rank per commission id).        *)
(***************************************************************************)
TieOrders == {t \in [CommissionIds -> CommissionIds] :
                 \A i, j \in CommissionIds : i # j => t[i] # t[j]}

RECURSIVE OrderBy(_, _, _)
OrderBy(S, key, tie) ==
    IF S = {} THEN <<>>
    ELSE LET m == CHOOSE x \in S : \A y \in S \ {x} :
                     \/ key[x] < key[y]
                     \/ key[x] = key[y] /\ tie[x] < tie[y]
         IN  <<m>> \o OrderBy(S \ {m}, key, tie)

(***************************************************************************)
(* Store queries shared by the handlers.                                   *)
(***************************************************************************)
\* commission.findMany({where: {userId, status: {in: [PENDING, APPROVED, PAID]}}})
allCommissions(db, userId) ==
    {c \in DOMAIN db.commission :
        /\ db.commission[c].userId = userId
        /\ db.commission[c].status \in {"PENDING", "APPROVED", "PAID"}}

\* payoutCommission.findMany({where: {payout: {userId}}, include: {payout: true}})
allPayoutCommissions(db, userId) ==
    {l \in db.payoutCommission : db.payout[l[1]].userId = userId}

amountOf(db) == [c \in DOMAIN db.commission |-> db.commission[c].amount]

totalCommissionValue(db, userId) == SumBy(allCommissions(db, userId), amountOf(db))

\* One term per link row: a payout with k links is added k times and a
\* payout without a link is not added.
usedInProcessedPayouts(db, userId) ==
    LET S == {l \in allPayoutCommissions(db, userId) :
                 db.payout[l[1]].status \in {"APPROVED", "PAID"}}
    IN  SumBy(S, [l \in S |-> db.payout[l[1]].amount])

\* payout.aggregate({where: {userId, status: PENDING}, _sum: {amount}}) || 0
totalPendingAmount(db, userId) ==
    LET S == {i \in DOMAIN db.payout :
                 /\ db.payout[i].userId = userId
                 /\ db.payout[i].status = "PENDING"}
    IN  SumBy(S, [i \in S |-> db.payout[i].amount])

\* known is the allCommissions result the links are looked up in
valueOfCommissionsInPendingPayouts(db, userId, known) ==
    LET S == {l \in allPayoutCommissions(db, userId) :
                 db.payout[l[1]].status = "PENDING"}
    IN  SumBy(S, [l \in S |-> IF l[2] \in known
                              THEN db.commission[l[2]].amount ELSE 0])

effectivePendingUsage(pendingValue, pendingAmount) == Min(pendingValue, pendingAmount)

\* Math.max(0, totalCommissionValue - (usedInProcessedPayouts + effectivePendingUsage))
balanceFormula(total, used, pendingValue, pendingAmount) ==
    Max(0, total - (used + effectivePendingUsage(pendingValue, pendingAmount)))

\* Faulty variant, for showing that the claim about the selection rests on
\* the where clause: the filter on the commission status is dropped.
candidateCommissionsAnyStatus(db, userId) ==
    {c \in DOMAIN db.commission :
        /\ db.commission[c].userId = userId
        /\ ~ \E l \in db.payoutCommission :
                /\ l[2] = c
                /\ db.payout[l[1]].status \in {"APPROVED", "PAID"}}

\* The where clause of availableCommissions (the same in both copies).
candidateCommissions(db, userId) ==
    {c \in DOMAIN db.commission :
        /\ db.commission[c].userId = userId
        /\ db.commission[c].status \in {"APPROVED", "PENDING"}
        /\ ~ \E l \in db.payoutCommission :
                /\ l[2] = c
                /\ db.payout[l[1]].status \in {"APPROVED", "PAID"}}

\* availableCommissions: orderBy createdAt asc (admin), orderBy amount asc (part_002)
availableCommissions(db, userId, b, tie) ==
    OrderBy(candidateCommissions(db, userId),
            IF b = "admin"
            THEN [c \in DOMAIN db.commission |-> db.commission[c].createdAt]
            ELSE amountOf(db),
            tie)

\* The figure createPayout compares the requested amount against, read from
\* one state of the store.
totalAvailableCommission(db, userId, b) ==
    IF b = "admin"
    THEN SumBy(candidateCommissions(db, userId), amountOf(db))
    ELSE balanceFormula(totalCommissionValue(db, userId),
                        usedInProcessedPayouts(db, userId),
                        valueOfCommissionsInPendingPayouts(db, userId,
                                                           allCommissions(db, userId)),
                        totalPendingAmount(db, userId))

(***************************************************************************)
(* A request in flight: its arguments, its position (pc names the store    *)
(* call it is about to make) and the handler's local variables.  code is   *)
(* the HTTP status of the response, 0 while there is none, and             *)
(* totalCommission the figure the dashboard answers with.                  *)
(***************************************************************************)
Idle == [op |-> "none", pc |-> "idle", code |-> 0, calls |-> 0,
         userId |-> "a1", amount |-> 0,
         id |-> 0, status |-> "PENDING", transactionId |-> NoTx,
         payoutId |-> 0, known |-> {}, total |-> 0, used |-> 0,
         pendingValue |-> 0, avail |-> <<>>, remainingAmount |-> 0,
         existingStatus |-> "PENDING", commissionIds |-> {},
         totalCommission |-> 0]

\* res.status(code).json(...): the handler returns.  The record of the call
\* keeps its arguments, the payout it created and what updatePayoutStatus
\* found (the status the payout had and the commissions linked to it); the
\* other locals are gone.
Respond(loc, code) ==
    [Idle EXCEPT !.op = loc.op, !.pc = "done", !.code = code,
                 !.calls = loc.calls,
                 !.userId = loc.userId, !.amount = loc.amount,
                 !.id = loc.id, !.status = loc.status,
                 !.transactionId = loc.transactionId,
                 !.payoutId = loc.payoutId,
                 !.existingStatus = loc.existingStatus,
                 !.commissionIds = loc.commissionIds]

\* Faulty variant, for showing that the claim about the greedy stop rests on
\* the break: the loop walks all the candidates.
LinkLoopNoBreak(loc) ==
    IF loc.avail = <<>>
    THEN Respond(loc, 201)
    ELSE [loc EXCEPT !.pc = "linkCommission"]

\* Entry of the link loop: for (...) { if (remainingAmount <= 0) break; ...
LinkLoop(loc) ==
    IF loc.remainingAmount <= 0 \/ loc.avail = <<>>
    THEN Respond(loc, 201)
    ELSE [loc EXCEPT !.pc = "linkCommission"]

(***************************************************************************)
(* createPayout: the synchronous prefix (argument validation).  The copy   *)
(* in part_002 also refuses amounts under the minimum payout threshold.    *)
(***************************************************************************)
createPayoutBegin(b, userId, amount) ==
    LET loc == [Idle EXCEPT !.op = "createPayout", !.userId = userId,
                            !.amount = amount]
    IN  IF amount <= 0 THEN Respond(loc, 400)
        ELSE IF b = "part_002" /\ amount < minimumPayoutThreshold
             THEN Respond(loc, 400)
        ELSE [loc EXCEPT !.pc = IF b = "admin" THEN "findAvailable"
                                ELSE "findAllCommissions"]

(***************************************************************************)
(* createPayout: one store round trip and the code up to the next one.     *)
(***************************************************************************)
createPayoutStep(db, loc, b, tie) ==
    CASE loc.pc = "findAllCommissions" ->
           [db |-> db,
            loc |-> [loc EXCEPT !.known = allCommissions(db, loc.userId),
                                !.total = totalCommissionValue(db, loc.userId),
                                !.pc = "findAllPayoutCommissions"]]
      [] loc.pc = "findAllPayoutCommissions" ->
           [db |-> db,
            loc |-> [loc EXCEPT
                       !.used = usedInProcessedPayouts(db, loc.userId),
                       !.pendingValue =
                           valueOfCommissionsInPendingPayouts(db, loc.userId, loc.known),
                       !.pc = "aggregatePending"]]
      [] loc.pc = "aggregatePending" ->
           [db |-> db,
            loc |-> IF loc.amount > balanceFormula(loc.total, loc.used, loc.pendingValue,
                                                   totalPendingAmount(db, loc.userId))
                    THEN Respond(loc, 400)
                    ELSE [loc EXCEPT !.pc = "createPayoutRow"]]
      [] loc.pc = "findAvailable" ->
           LET found == availableCommissions(db, loc.userId, b, tie)
           IN  [db |-> db,
                loc |-> IF b = "admin"
                        THEN IF loc.amount > SumBy(candidateCommissions(db, loc.userId),
                                                   amountOf(db))
                             THEN Respond(loc, 400)
                             ELSE [loc EXCEPT !.avail = found,
                                              !.pc = "createPayoutRow"]
                        ELSE LinkLoop([loc EXCEPT !.avail = found,
                                                  !.remainingAmount = loc.amount])]
      [] loc.pc = "createPayoutRow" ->
           LET row == [userId |-> loc.userId, amount |-> loc.amount,
                       status |-> "PENDING", transactionId |-> NoTx,
                       approvedAt |-> NoTime, paidAt |-> NoTime]
               made == [loc EXCEPT !.payoutId = Len(db.payout) + 1]
           IN  [db |-> [db EXCEPT !.payout = Append(db.payout, row)],
                loc |-> IF b = "admin"
                        THEN LinkLoop([made EXCEPT !.remainingAmount = loc.amount])
                        ELSE [made EXCEPT !.pc = "findAllCommissionsForLinking"]]
      \* the three results below are computed and never used
      [] loc.pc = "findAllCommissionsForLinking" ->
           [db |-> db,
            loc |-> [loc EXCEPT !.pc = "findAllPayoutCommissionsForLinking"]]
      [] loc.pc = "findAllPayoutCommissionsForLinking" ->
           [db |-> db, loc |-> [loc EXCEPT !.pc = "aggregateOtherPending"]]
      [] loc.pc = "aggregateOtherPending" ->
           [db |-> db, loc |-> [loc EXCEPT !.pc = "findAvailable"]]
      [] loc.pc = "linkCommission" ->
           LET c == Head(loc.avail)
               amountToLink == Min(db.commission[c].amount, loc.remainingAmount)
           IN  [db |-> [db EXCEPT !.payoutCommission = @ \cup {<<loc.payoutId, c>>}],
                loc |-> LinkLoop([loc EXCEPT
                                    !.avail = Tail(loc.avail),
                                    !.remainingAmount = @ - amountToLink])]

(***************************************************************************)
(* updatePayoutStatus (the same text in both copies).                      *)
(***************************************************************************)
updatePayoutStatusBegin(id, status, transactionId) ==
    LET loc == [Idle EXCEPT !.op = "updatePayoutStatus", !.id = id,
                            !.status = status, !.transactionId = transactionId]
    IN  IF status \notin {"PENDING", "APPROVED", "PAID", "REJECTED"}
        THEN Respond(loc, 400)
        ELSE [loc EXCEPT !.pc = "findUnique"]

\* Faulty variant, for showing that the claim about the transaction id rests
\* on the test of line 803: transactionId is written even when none is sent.
updateDataOverwriting(row, status, transactionId, now) ==
    [row EXCEPT !.status = status,
                !.transactionId = transactionId,
                !.paidAt = IF status = "PAID" THEN now ELSE @,
                !.approvedAt = IF status = "APPROVED" THEN now ELSE @]

\* data of payout.update: status always, transactionId when truthy,
\* paidAt / approvedAt when the new status is PAID / APPROVED
updateData(row, status, transactionId, now) ==
    [row EXCEPT !.status = status,
                !.transactionId = IF transactionId # NoTx THEN transactionId ELSE @,
                !.paidAt = IF status = "PAID" THEN now ELSE @,
                !.approvedAt = IF status = "APPROVED" THEN now ELSE @]

\* Faulty variants of the two bulk writes, for showing that the claims about
\* updatePayoutStatus rest on them: an updateMany whose where clause is
\* dropped, an updateMany that matches no row and a deleteMany that matches
\* no row.
updateManyUnfiltered(db, ids, status) ==
    [db EXCEPT !.commission =
        [c \in DOMAIN @ |-> [@[c] EXCEPT !.status = status]]]

updateManyNoRow(db, ids, status) == db

deleteManyNoRow(db, id) == db

\* commission.updateMany({where: {id: {in: ids}}, data: {status}})
updateMany(db, ids, status) ==
    [db EXCEPT !.commission =
        [c \in DOMAIN @ |-> IF c \in ids THEN [@[c] EXCEPT !.status = status]
                            ELSE @[c]]]

\* payoutCommission.deleteMany({where: {payoutId: id}})
deleteMany(db, id) ==
    [db EXCEPT !.payoutCommission = {l \in @ : l[1] # id}]

updatePayoutStatusStep(db, loc, now) ==
    CASE loc.pc = "findUnique" ->
           [db |-> db,
            loc |-> IF loc.id \notin DOMAIN db.payout
                    THEN Respond(loc, 404)
                    ELSE [loc EXCEPT
                            !.existingStatus = db.payout[loc.id].status,
                            !.commissionIds =
                                {l[2] : l \in {k \in db.payoutCommission : k[1] = loc.id}},
                            !.pc = "updatePayoutRow"]]
      [] loc.pc = "updatePayoutRow" ->
           [db |-> [db EXCEPT !.payout[loc.id] =
                       updateData(@, loc.status, loc.transactionId, now)],
            loc |-> IF loc.status \in {"APPROVED", "PAID"}
                    THEN [loc EXCEPT !.pc = "markCommissionsPaid"]
                    ELSE IF loc.status = "REJECTED"
                    THEN IF loc.existingStatus \in {"APPROVED", "PAID"}
                         THEN [loc EXCEPT !.pc = "revertCommissions"]
                         ELSE [loc EXCEPT !.pc = "deleteLinks"]
                    ELSE Respond(loc, 200)]
      [] loc.pc = "markCommissionsPaid" ->
           [db |-> updateMany(db, loc.commissionIds, "PAID"),
            loc |-> Respond(loc, 200)]
      [] loc.pc = "revertCommissions" ->
           [db |-> updateMany(db, loc.commissionIds, "APPROVED"),
            loc |-> [loc EXCEPT !.pc = "deleteLinks"]]
      [] loc.pc = "deleteLinks" ->
           [db |-> deleteMany(db, loc.id), loc |-> Respond(loc, 200)]

(***************************************************************************)
(* getAgentDashboardMetrics: the totalCommission figure of the response.   *)
(* admin.controller.ts adds up the commissions linked to no PENDING,       *)
(* APPROVED or PAID payout of the agent; part_002 repeats the balance      *)
(* formula of its createPayout.  The handler only reads.                   *)
(***************************************************************************)
dashboardTotalCommission(db, userId, b) ==
    IF b = "admin"
    THEN LET payoutCommissionIdSet ==
                 {l[2] : l \in {k \in allPayoutCommissions(db, userId) :
                                   db.payout[k[1]].status
                                       \in {"APPROVED", "PAID", "PENDING"}}}
         IN  SumBy(allCommissions(db, userId) \ payoutCommissionIdSet, amountOf(db))
    ELSE balanceFormula(totalCommissionValue(db, userId),
                        usedInProcessedPayouts(db, userId),
                        valueOfCommissionsInPendingPayouts(db, userId,
                                                           allCommissions(db, userId)),
                        totalPendingAmount(db, userId))

\* Faulty variant, for showing that the read-only claim rests on the handler:
\* a dashboard that releases the links of the agent's PENDING payouts.
getAgentDashboardMetricsReleasing(db, userId, b) ==
    [db |-> [db EXCEPT !.payoutCommission =
                {l \in @ : ~ (/\ db.payout[l[1]].userId = userId
                              /\ db.payout[l[1]].status = "PENDING")}],
     loc |-> [Idle EXCEPT !.op = "getAgentDashboardMetrics", !.pc = "done",
                          !.code = 200, !.userId = userId,
                          !.totalCommission = dashboardTotalCommission(db, userId, b)]]

getAgentDashboardMetricsRun(db, userId, b) ==
    [db |-> db,
     loc |-> [Idle EXCEPT !.op = "getAgentDashboardMetrics", !.pc = "done",
                          !.code = 200, !.userId = userId,
                          !.totalCommission = dashboardTotalCommission(db, userId, b)]]

(***************************************************************************)
(* One round trip of whichever handler loc belongs to, and a handler run   *)
(* from loc to its response.                                               *)
(***************************************************************************)
Step(db, loc, b, tie, now) ==
    IF loc.op = "createPayout" THEN createPayoutStep(db, loc, b, tie)
    ELSE updatePayoutStatusStep(db, loc, now)

RECURSIVE Run(_, _, _, _, _)
Run(db, loc, b, tie, now) ==
    IF loc.pc = "done" THEN [db |-> db, loc |-> loc]
    ELSE LET r == Step(db, loc, b, tie, now)
         IN  Run(r.db, r.loc, b, tie, now)

(***************************************************************************)
(* Initial state: a ledger without payouts.  Commissions are created       *)
(* PENDING by the order handlers, in the order of their ids, and an admin  *)
(* may have approved or blocked some of them.  The payout handlers do not  *)
(* read Commission.orderId, and the rows of the ledger leave it out.       *)
(***************************************************************************)
InitStatuses == {"PENDING", "APPROVED", "BLOCKED"}

\* Commission 1 belongs to a2, who asks for no payout; the others to a1.
Owner(c) == IF c = 1 THEN "a2" ELSE "a1"

Requesters == {"a1"}

Ledger(statuses) ==
    /\ build \in Builds
    /\ \E amount \in [CommissionIds -> CommissionAmounts],
          status \in [CommissionIds -> statuses] :
          /\ amount[1] = 60 /\ status[1] = "APPROVED"
          /\ commission = [c \in CommissionIds |->
                              [userId |-> Owner(c), amount |-> amount[c],
                               status |-> status[c], createdAt |-> c]]
    /\ payout = <<>>
    /\ payoutCommission = {}
    /\ call = [p \in Procs |-> Idle]
    /\ product = <<>>
    /\ order = <<>>

Init == Ledger(InitStatuses)

InFlight(p) == call[p].pc \notin {"idle", "done"}

Commit(p, r) ==
    /\ commission' = r.db.commission
    /\ payout' = r.db.payout
    /\ payoutCommission' = r.db.payoutCommission
    /\ call' = [call EXCEPT ![p] = r.loc]
    /\ UNCHANGED <<build, product, order>>

(***************************************************************************)
(* Spec: requests served one after the other, the store never failing.     *)
(* No caller sends a transactionId and the clock is not observed (every    *)
(* timestamp written reads NoTime): no rule of the ledger reads either.    *)
(***************************************************************************)
createPayout ==
    \E userId \in Requesters, amount \in RequestAmounts, tie \in TieOrders :
        /\ Len(payout) < MaxPayouts
        /\ Commit(1, Run(DB, createPayoutBegin(build, userId, amount),
                         build, tie, NoTime))

updatePayoutStatus ==
    \E id \in PayoutIdInputs, status \in StatusInputs :
        /\ id <= Len(payout) + 1
        /\ Commit(1, Run(DB, updatePayoutStatusBegin(id, status, NoTx),
                         build, <<>>, NoTime))

getAgentDashboardMetrics ==
    \E userId \in Agents :
        /\ call[1].pc \in {"idle", "done"}
        /\ Commit(1, getAgentDashboardMetricsRun(DB, userId, build))

Next == createPayout \/ updatePayoutStatus \/ getAgentDashboardMetrics

Spec == Init /\ [][Next]_vars

(***************************************************************************)
(* SpecConc: the requests of two clients interleave at the awaits; every   *)
(* round trip is one step, and a round trip may throw: the catch block of  *)
(* the handler answers 500 and nothing is rolled back (no handler opens a  *)
(* transaction).  The clients send at most MaxCalls requests in all; the     *)
(* ledger starts with approved commissions.                                *)
(***************************************************************************)
InitConc == Ledger({"APPROVED"})

Creating == {p \in Procs : /\ InFlight(p)
                           /\ call[p].op = "createPayout"
                           /\ call[p].payoutId = 0}

Receive(p, loc) ==
    /\ ~ InFlight(p)
    /\ SumBy(Procs, [q \in Procs |-> call[q].calls]) < MaxCalls
    /\ call' = [call EXCEPT ![p] = [loc EXCEPT !.calls = call[p].calls + 1]]
    /\ UNCHANGED <<build, commission, payout, payoutCommission, product, order>>

createPayoutCall(p) ==
    \E userId \in Requesters, amount \in RequestAmounts :
        /\ Len(payout) + Cardinality(Creating) < MaxPayouts
        /\ Receive(p, createPayoutBegin(build, userId, amount))

createPayoutRoundTrip(p) ==
    \E tie \in TieOrders :
        /\ InFlight(p)
        /\ call[p].op = "createPayout"
        /\ Commit(p, createPayoutStep(DB, call[p], build, tie))

updatePayoutStatusCall(p) ==
    \E id \in PayoutIdInputs, status \in StatusInputs :
        /\ id <= Len(payout) + 1
        /\ Receive(p, updatePayoutStatusBegin(id, status, NoTx))

updatePayoutStatusRoundTrip(p) ==
    /\ InFlight(p)
    /\ call[p].op = "updatePayoutStatus"
    /\ Commit(p, updatePayoutStatusStep(DB, call[p], NoTime))

StoreFailure(p) ==
    /\ InFlight(p)
    /\ call' = [call EXCEPT ![p] = Respond(call[p], 500)]
    /\ UNCHANGED <<build, commission, payout, payoutCommission, product, order>>

NextConc ==
    \E p \in Procs :
        \/ createPayoutCall(p)
        \/ createPayoutRoundTrip(p)
        \/ updatePayoutStatusCall(p)
        \/ updatePayoutStatusRoundTrip(p)
        \/ StoreFailure(p)

SpecConc == InitConc /\ [][NextConc]_vars

(***************************************************************************)
(* SpecStamps: requests served one after the other, as in Spec, on a       *)
(* ledger of approved commissions, with the clock read by new Date() and   *)
(* the transactionId of the request body as inputs of updatePayoutStatus.  *)
(* The agent asks for at most MaxStampedPayouts payouts.                   *)
(***************************************************************************)
createPayoutStamped ==
    \E userId \in Requesters, amount \in RequestAmounts, tie \in TieOrders :
        /\ Len(payout) < MaxStampedPayouts
        /\ Commit(1, Run(DB, createPayoutBegin(build, userId, amount),
                         build, tie, NoTime))

updatePayoutStatusAt ==
    \E id \in PayoutIdInputs, status \in StatusInputs,
       transactionId \in TransactionIds, now \in Times :
        /\ id <= Len(payout) + 1
        /\ Commit(1, Run(DB, updatePayoutStatusBegin(id, status, transactionId),
                         build, <<>>, now))

NextStamps == createPayoutStamped \/ updatePayoutStatusAt

SpecStamps == InitConc /\ [][NextStamps]_vars

(***************************************************************************)
(* Vocabulary of the claims.                                               *)
(***************************************************************************)
LinksOf(i) == {l[2] : l \in {k \in payoutCommission : k[1] = i}}

Active == {"PENDING", "APPROVED", "PAID"}

\* value of the rows of PayoutCommission whose payout is not REJECTED
LinkedValue(a) ==
    LET S == {l \in payoutCommission :
                 /\ payout[l[1]].userId = a
                 /\ payout[l[1]].status # "REJECTED"}
    IN  SumBy(S, [l \in S |-> commission[l[2]].amount])

\* The balance of the specification: each APPROVED or PAID payout counts
\* once with its own amount, the PENDING ones with
\* min(value linked to them, amount requested by them).
ProcessedAmount(db, a) ==
    LET S == {i \in DOMAIN db.payout :
                 /\ db.payout[i].userId = a
                 /\ db.payout[i].status \in {"APPROVED", "PAID"}}
    IN  SumBy(S, [i \in S |-> db.payout[i].amount])

LedgerBalance(db, a) ==
    Max(0, totalCommissionValue(db, a) - ProcessedAmount(db, a)
           - Min(valueOfCommissionsInPendingPayouts(db, a, allCommissions(db, a)),
                 totalPendingAmount(db, a)))

\* the step just taken is a createPayout call answered with code
Created(code) ==
    /\ call'[1].op = "createPayout"
    /\ call'[1].code = code
    /\ call' # call \/ payout' # payout

Succeeded == Created(201) /\ Len(payout') = Len(payout) + 1

StoreUnchanged ==
    /\ commission' = commission
    /\ payout' = payout
    /\ payoutCommission' = payoutCommission

\* C1 (conservation): for every agent, the commission value linked to the
\* agent's payouts that are not REJECTED is at most the value of the agent's
\* PENDING, APPROVED and PAID commissions.
C1_Conservation ==
    \A a \in Agents : LinkedValue(a) <= totalCommissionValue(DB, a)

\* C2 (no double allocation): a commission linked to an APPROVED or PAID
\* payout is linked to no other PENDING, APPROVED or PAID payout.
C2_NoDoubleAllocation ==
    \A l1, l2 \in payoutCommission :
        (/\ l1[2] = l2[2]
         /\ l1[1] # l2[1]
         /\ payout[l1[1]].status \in {"APPROVED", "PAID"})
        => payout[l2[1]].status \notin Active

\* C3: two payouts that are not REJECTED and share a commission never ask,
\* together, for more than the value of the commissions linked to them.
C3_SharedCommissionCovered ==
    \A p1, p2 \in DOMAIN payout :
        (/\ p1 # p2
         /\ payout[p1].status # "REJECTED"
         /\ payout[p2].status # "REJECTED"
         /\ LinksOf(p1) \cap LinksOf(p2) # {})
        => payout[p1].amount + payout[p2].amount
              <= SumBy(LinksOf(p1) \cup LinksOf(p2), amountOf(DB))

\* C4 (balance decrease): a createPayout that answers 201 lowers the
\* available balance of the agent by exactly the requested amount.
C4_BalanceDecrease ==
    [][Succeeded =>
          totalAvailableCommission(DB', call'[1].userId, build)
            = totalAvailableCommission(DB, call'[1].userId, build)
                - call'[1].amount]_vars

\* C5: a createPayout for more than the ledger balance (earned value less
\* the APPROVED and PAID payouts less the value reserved by the PENDING
\* ones) answers 400 and writes nothing.
C5_InsufficientBalanceRefused ==
    [][(/\ call'[1].op = "createPayout"
        /\ call' # call \/ payout' # payout
        /\ call'[1].amount > LedgerBalance(DB, call'[1].userId))
       => call'[1].code = 400 /\ StoreUnchanged]_vars

\* C6 (threshold): a createPayout with 0 < amount < 50 answers 400 and
\* writes nothing; with amount 50 and an available balance of at least 50 it
\* answers 201 and appends a PENDING payout.
C6_Threshold ==
    [][(/\ call'[1].op = "createPayout"
        /\ call' # call \/ payout' # payout)
       => /\ (0 < call'[1].amount /\ call'[1].amount < minimumPayoutThreshold)
                => call'[1].code = 400 /\ StoreUnchanged
          /\ (/\ call'[1].amount = minimumPayoutThreshold
              /\ totalAvailableCommission(DB, call'[1].userId, build)
                    >= minimumPayoutThreshold)
                => /\ call'[1].code = 201
                   /\ Len(payout') = Len(payout) + 1
                   /\ payout'[Len(payout')].status = "PENDING"]_vars

\* C8 (payout state machine): a payout changes status only along
\* PENDING->APPROVED, PENDING->REJECTED, APPROVED->PAID, APPROVED->REJECTED;
\* an updatePayoutStatus asking for any other transition answers 400 and
\* writes nothing.
Transitions == {<<"PENDING", "APPROVED">>, <<"PENDING", "REJECTED">>,
                <<"APPROVED", "PAID">>, <<"APPROVED", "REJECTED">>}

C8_StateMachine ==
    [][/\ \A i \in DOMAIN payout :
             payout'[i].status # payout[i].status
                => <<payout[i].status, payout'[i].status>> \in Transitions
       /\ (/\ call'[1].op = "updatePayoutStatus"
           /\ call' # call \/ payout' # payout
           /\ call'[1].id \in DOMAIN payout
           /\ <<payout[call'[1].id].status, call'[1].status>> \notin Transitions)
          => call'[1].code = 400 /\ StoreUnchanged]_vars

\* C7 (concurrent requests): when two createPayout calls of one agent have
\* both answered 201 and their payouts are PENDING, the two amounts together
\* do not exceed what the agent has earned (the available balance before
\* either call), and if the two payouts share a commission the commissions
\* linked to them cover both amounts.
C7_ConcurrentRequests ==
    \A p, q \in Procs :
        (/\ p # q
         /\ call[p].op = "createPayout" /\ call[p].code = 201
         /\ call[q].op = "createPayout" /\ call[q].code = 201
         /\ call[p].userId = call[q].userId
         /\ payout[call[p].payoutId].status = "PENDING"
         /\ payout[call[q].payoutId].status = "PENDING")
        => /\ call[p].amount + call[q].amount
                 <= totalCommissionValue(DB, call[p].userId)
           /\ LinksOf(call[p].payoutId) \cap LinksOf(call[q].payoutId) # {}
                 => call[p].amount + call[q].amount
                       <= SumBy(LinksOf(call[p].payoutId)
                                   \cup LinksOf(call[q].payoutId), amountOf(DB))

\* C9 (atomic createPayout): a createPayout that answered 500 because a
\* store call threw has left no Payout row and no PayoutCommission row.
C9_AtomicCreatePayout ==
    \A p \in Procs :
        (call[p].op = "createPayout" /\ call[p].code = 500)
        => /\ call[p].payoutId \notin DOMAIN payout
           /\ \A l \in payoutCommission : l[1] # call[p].payoutId

\* C10 (atomic updatePayoutStatus): in no state is a payout APPROVED or PAID
\* while a commission linked to it is not PAID, or REJECTED while a
\* PayoutCommission row still references it.
C10_AtomicUpdatePayoutStatus ==
    \A i \in DOMAIN payout :
        /\ payout[i].status \in {"APPROVED", "PAID"}
              => \A c \in LinksOf(i) : commission[c].status = "PAID"
        /\ payout[i].status = "REJECTED" => LinksOf(i) = {}

(***************************************************************************)
(* Vocabulary of the claims about a request, its resolution and a retry.   *)
(* The resolutions that follow a request are the handler itself, run on    *)
(* the store the request has left.                                         *)
(***************************************************************************)
linksIn(db, i) == {l[2] : l \in {k \in db.payoutCommission : k[1] = i}}

resolve(db, id, status) ==
    Run(db, updatePayoutStatusBegin(id, status, NoTx), build, <<>>, NoTime)

\* the store r.db has the balance and the commission statuses of the store
\* before, and the payout id has no links in it
restored(before, r, a, id) ==
    /\ r.loc.code = 200
    /\ totalAvailableCommission(r.db, a, build)
          = totalAvailableCommission(before, a, build)
    /\ linksIn(r.db, id) = {}
    /\ \A c \in DOMAIN before.commission :
          r.db.commission[c].status = before.commission[c].status

\* C11 (reject restores the balance): after a createPayout answered 201,
\* rejecting the new payout at once, or approving and then rejecting it,
\* gives back the balance of before the request, leaves the payout without
\* links and every commission with the status it had before the request.
C11_RejectRestoresBalance ==
    [][Succeeded =>
          LET a == call'[1].userId
              id == call'[1].payoutId
          IN  /\ restored(DB, resolve(DB', id, "REJECTED"), a, id)
              /\ restored(DB, resolve(resolve(DB', id, "APPROVED").db,
                                       id, "REJECTED"), a, id)]_vars

\* C12 (reject then retry): after a createPayout answered 201 and its payout
\* was rejected, the same request made again answers 201 and links the same
\* commissions, in whatever order the store returns candidates of equal key.
C12_RejectThenRetry ==
    [][Succeeded =>
          LET a == call'[1].userId
              id == call'[1].payoutId
              rejected == resolve(DB', id, "REJECTED")
          IN  \A tie \in TieOrders :
                 LET retry == Run(rejected.db,
                                  createPayoutBegin(build, a, call'[1].amount),
                                  build, tie, NoTime)
                 IN  /\ retry.loc.code = 201
                     /\ linksIn(retry.db, retry.loc.payoutId) = linksIn(DB', id)]_vars

\* d was created before c (ties by commission id)
older(db, d, c) ==
    \/ db.commission[d].createdAt < db.commission[c].createdAt
    \/ db.commission[d].createdAt = db.commission[c].createdAt /\ d < c

\* three APPROVED commissions of 20, 30 and 40 of one agent, created in
\* that order, and no payout
FifoLedger ==
    [commission |-> [c \in 1..3 |->
                        [userId |-> "a1", amount |-> 10 + 10 * c,
                         status |-> "APPROVED", createdAt |-> c]],
     payout |-> <<>>,
     payoutCommission |-> {}]

\* C13 (FIFO allocation): the commissions a successful createPayout links
\* are candidates, and no candidate left unlinked is older than a linked
\* one; on three APPROVED commissions of 20, 30, 40 a request of 45 answers
\* 201 and links the 20 and the 30 only.
C13_FifoAllocation ==
    [][/\ Succeeded =>
             LET cand == candidateCommissions(DB, call'[1].userId)
                 S == linksIn(DB', call'[1].payoutId)
             IN  /\ S \subseteq cand
                 /\ \A c \in S, d \in cand \ S : ~ older(DB, d, c)
       /\ \A tie \in TieOrders :
             LET r == Run(FifoLedger, createPayoutBegin(build, "a1", 45),
                          build, tie, NoTime)
             IN  r.loc.code = 201 /\ linksIn(r.db, r.loc.payoutId) = {1, 2}]_vars

\* C14 (coverage): right after a createPayout answered 201, the amounts of
\* the commissions linked to the new payout add up to at least the amount
\* requested.
C14_Coverage ==
    [][Succeeded =>
          SumBy(linksIn(DB', call'[1].payoutId), amountOf(DB)) >= call'[1].amount]_vars

(***************************************************************************)
(* Claims about one updatePayoutStatus call.  In Spec every step that      *)
(* changes the state leaves in call[1] the call that made it.              *)
(***************************************************************************)
\* the step just taken is an updatePayoutStatus to status answered 200
Resolved(status) ==
    /\ call'[1].op = "updatePayoutStatus"
    /\ call'[1].code = 200
    /\ call'[1].status = status

\* C15 (approve/pay side effect): after an updatePayoutStatus to APPROVED or
\* PAID answered 200, the payout has that status, every commission linked to
\* it is PAID and every other commission has the status it had.
C15_ApprovePaySideEffect ==
    [][(Resolved("APPROVED") \/ Resolved("PAID")) =>
          /\ payout'[call'[1].id].status = call'[1].status
          /\ \A c \in DOMAIN commission :
                commission'[c].status =
                    IF c \in LinksOf(call'[1].id) THEN "PAID"
                    ELSE commission[c].status]_vars

\* an approval or payment has just marked the linked commissions of a payout
\* and left another commission, which is not PAID, alone
C15_Witness ==
    /\ call[1].op = "updatePayoutStatus"
    /\ call[1].code = 200
    /\ call[1].status \in {"APPROVED", "PAID"}
    /\ call[1].commissionIds # {}
    /\ LinksOf(call[1].id) = call[1].commissionIds
    /\ \A c \in call[1].commissionIds : commission[c].status = "PAID"
    /\ \E c \in DOMAIN commission : commission[c].status # "PAID"

\* C16 (reject from APPROVED or PAID): after an updatePayoutStatus to
\* REJECTED answered 200 on a payout that was APPROVED or PAID, every
\* commission that was linked to it is APPROVED and no PayoutCommission row
\* references it.
C16_RejectFromProcessed ==
    [][(/\ Resolved("REJECTED")
        /\ payout[call'[1].id].status \in {"APPROVED", "PAID"})
       => /\ payout'[call'[1].id].status = "REJECTED"
          /\ \A c \in LinksOf(call'[1].id) : commission'[c].status = "APPROVED"
          /\ \A l \in payoutCommission' : l[1] # call'[1].id]_vars

\* a payout that was APPROVED or PAID and had links has just been rejected
C16_Witness ==
    /\ call[1].op = "updatePayoutStatus"
    /\ call[1].code = 200
    /\ call[1].status = "REJECTED"
    /\ call[1].existingStatus \in {"APPROVED", "PAID"}
    /\ call[1].commissionIds # {}
    /\ payout[call[1].id].status = "REJECTED"
    /\ \A c \in call[1].commissionIds : commission[c].status = "APPROVED"
    /\ LinksOf(call[1].id) = {}

\* C17 (reject from PENDING): after an updatePayoutStatus to REJECTED
\* answered 200 on a PENDING payout, no PayoutCommission row references the
\* payout and no commission, linked or not, has changed status.
C17_RejectFromPending ==
    [][(/\ Resolved("REJECTED")
        /\ payout[call'[1].id].status = "PENDING")
       => /\ payout'[call'[1].id].status = "REJECTED"
          /\ \A l \in payoutCommission' : l[1] # call'[1].id
          /\ \A c \in DOMAIN commission :
                commission'[c].status = commission[c].status]_vars

\* a PENDING payout that had links has just been rejected
C17_Witness ==
    /\ call[1].op = "updatePayoutStatus"
    /\ call[1].code = 200
    /\ call[1].status = "REJECTED"
    /\ call[1].existingStatus = "PENDING"
    /\ call[1].commissionIds # {}
    /\ payout[call[1].id].status = "REJECTED"
    /\ LinksOf(call[1].id) = {}

\* C18 (available-balance formula): in every state of the ledger the figure
\* createPayout compares the amount with equals
\* max(0, earned - processed - min(pending value, pending amount)), each
\* APPROVED or PAID payout counted once with its own amount whatever the
\* number of its links, and is not negative.
C18_BalanceFormula ==
    \A a \in Agents :
        /\ totalAvailableCommission(DB, a, build) = LedgerBalance(DB, a)
        /\ totalAvailableCommission(DB, a, build) >= 0

C20_NotFoundInvalidStatus ==
    [][/\ (/\ call'[1].op = "updatePayoutStatus"
           /\ \/ call'[1].id \notin DOMAIN payout
              \/ call'[1].status \notin {"APPROVED", "PAID", "REJECTED"})
          => call'[1].code \in {400, 404} /\ StoreUnchanged
       /\ \A i \in DOMAIN payout :
             payout[i].status # "PENDING" => payout'[i].status # "PENDING"]_vars

(***************************************************************************)
(* Claims about interleaved calls (SpecConc).                              *)
(***************************************************************************)
\* C21 (request against resolve): no step inserts a link to a commission
\* that, in the state the insert is made in, has status PAID or is linked to
\* an APPROVED or PAID payout; a createPayout serialised with the
\* updatePayoutStatus calls of the agent inserts no such link.
C21_RequestAgainstResolve ==
    [][\A l \in payoutCommission' \ payoutCommission :
          /\ commission[l[2]].status # "PAID"
          /\ ~ \E k \in payoutCommission :
                  /\ k[2] = l[2]
                  /\ payout[k[1]].status \in {"APPROVED", "PAID"}]_vars

(***************************************************************************)
(* Claims about what one createPayout call links (Spec).                   *)
(***************************************************************************)
\* C23 (candidate selection): every link a step creates is created by a
\* createPayout for its new payout, to a commission of the requesting agent
\* that, when selected, has status APPROVED or PENDING (never BLOCKED or
\* PAID) and is linked to no APPROVED or PAID payout.
C23_CandidateSelection ==
    [][\A l \in payoutCommission' \ payoutCommission :
          /\ call'[1].op = "createPayout"
          /\ l[1] = call'[1].payoutId
          /\ commission[l[2]].userId = call'[1].userId
          /\ commission[l[2]].status \in {"APPROVED", "PENDING"}
          /\ ~ \E k \in payoutCommission :
                  /\ k[2] = l[2]
                  /\ payout[k[1]].status \in {"APPROVED", "PAID"}]_vars

\* a createPayout has just linked a commission and passed over a commission
\* of the agent that is BLOCKED or PAID
C23_Witness ==
    /\ call[1].op = "createPayout"
    /\ call[1].code = 201
    /\ LinksOf(call[1].payoutId) # {}
    /\ \E c \in DOMAIN commission :
          /\ commission[c].userId = call[1].userId
          /\ commission[c].status \in {"BLOCKED", "PAID"}
          /\ c \notin LinksOf(call[1].payoutId)

\* C24 (greedy stop, unique link): whenever a createPayout inserts a link,
\* the commissions already linked to its payout add up to less than the
\* amount requested, and the pair (payout, commission) it inserts is not in
\* PayoutCommission yet.
C24_GreedyStop ==
    [][\A p \in Procs :
          (/\ call[p].pc = "linkCommission"
           /\ call'[p] # call[p]
           /\ call'[p].code # 500)
          => /\ <<call[p].payoutId, Head(call[p].avail)>> \notin payoutCommission
             /\ <<call[p].payoutId, Head(call[p].avail)>> \in payoutCommission'
             /\ SumBy(LinksOf(call[p].payoutId), amountOf(DB)) < call[p].amount]_vars

\* a createPayout has answered 201 with two links, both needed to cover the
\* amount
C24_Witness ==
    \E p \in Procs :
        /\ call[p].op = "createPayout"
        /\ call[p].code = 201
        /\ Cardinality(LinksOf(call[p].payoutId)) = 2
        /\ SumBy(LinksOf(call[p].payoutId), amountOf(DB)) >= call[p].amount
        /\ \A c \in LinksOf(call[p].payoutId) :
              commission[c].amount < call[p].amount

(***************************************************************************)
(* Claim about the columns updatePayoutStatus writes (SpecStamps).         *)
(***************************************************************************)
\* C25 (timestamps and transaction id): an updatePayoutStatus answered 200
\* sets approvedAt and keeps paidAt when the status is APPROVED, sets paidAt
\* and keeps approvedAt when it is PAID, keeps both when it is REJECTED; it
\* writes the transactionId sent with it and keeps the old one when none is
\* sent; no step changes the amount or the owner of a payout.
C25_Stamps ==
    [][/\ \A i \in DOMAIN payout :
             /\ payout'[i].amount = payout[i].amount
             /\ payout'[i].userId = payout[i].userId
       /\ (call'[1].op = "updatePayoutStatus" /\ call'[1].code = 200) =>
             LET old == payout[call'[1].id]
                 new == payout'[call'[1].id]
             IN  /\ new.transactionId =
                       IF call'[1].transactionId # NoTx
                       THEN call'[1].transactionId ELSE old.transactionId
                 /\ call'[1].status = "APPROVED" =>
                       new.approvedAt \in Times /\ new.paidAt = old.paidAt
                 /\ call'[1].status = "PAID" =>
                       new.paidAt \in Times /\ new.approvedAt = old.approvedAt
                 /\ call'[1].status = "REJECTED" =>
                       new.approvedAt = old.approvedAt /\ new.paidAt = old.paidAt]_vars

\* a payout approved with a transactionId has just been paid by a request
\* without one: both timestamps are set and the transactionId is kept
C25_Witness ==
    /\ call[1].op = "updatePayoutStatus"
    /\ call[1].code = 200
    /\ call[1].status = "PAID"
    /\ call[1].transactionId = NoTx
    /\ payout[call[1].id].transactionId # NoTx
    /\ payout[call[1].id].approvedAt \in Times
    /\ payout[call[1].id].paidAt \in Times
    /\ payout[call[1].id].paidAt # payout[call[1].id].approvedAt

(***************************************************************************)
(* Claims about the ledger as a whole (Spec).                              *)
(***************************************************************************)
\* C26 (money conservation): for every agent the amounts of the APPROVED
\* and PAID payouts add up to at most the amounts of the agent's PENDING,
\* APPROVED and PAID commissions.
C26_MoneyConservation ==
    \A a \in Agents : ProcessedAmount(DB, a) <= totalCommissionValue(DB, a)

\* C27 (link/status consistency): every commission linked to an APPROVED or
\* PAID payout has status PAID.
C27_LinkStatusConsistency ==
    \A l \in payoutCommission :
        payout[l[1]].status \in {"APPROVED", "PAID"}
            => commission[l[2]].status = "PAID"

\* C28 (the two balances agree): for every agent the totalCommission of
\* getAgentDashboardMetrics equals the figure createPayout compares the
\* amount with.
C28_BalancesAgree ==
    \A a \in Agents :
        dashboardTotalCommission(DB, a, build) = totalAvailableCommission(DB, a, build)

\* C29 (a REJECTED payout has no links): no PayoutCommission row references
\* a REJECTED payout, unless an updatePayoutStatus on that payout is still
\* on its way to the deleteMany; and every link a step creates is created by
\* the createPayout call that created the payout.
C29_RejectedHasNoLinks ==
    [][/\ \A l \in payoutCommission' :
             payout'[l[1]].status = "REJECTED"
                => \E p \in Procs : /\ call'[p].op = "updatePayoutStatus"
                                     /\ call'[p].id = l[1]
                                     /\ call'[p].pc \in {"revertCommissions", "deleteLinks"}
       /\ \A l \in payoutCommission' \ payoutCommission :
             \E p \in Procs : /\ call[p].op = "createPayout"
                               /\ call[p].pc = "linkCommission"
                               /\ call[p].payoutId = l[1]]_vars

(***************************************************************************)
(* The order handlers: createOrder (order.controller.ts, POST /create) and *)
(* placeOrder (part_006, POST /place).  Both create one Order row per item *)
(* of the request and the commissions of the referring agent.  Prices are  *)
(* whole numbers; the Customer table, which both handlers write and no     *)
(* rule of stock or commission reads, is not part of the store record, but *)
(* its round trips are positions of the handlers.                          *)
(***************************************************************************)
MaxOrders == 3

ProductIds == {1, 2}
UnknownProduct == 3
ProductPrice == 100
TotalAmounts == {0, 200}
InitialStock == 3
NoAgent == "noAgent"
AgentInputs == {NoAgent, "a1"}

\* Product 1 pays a commission of 10 %, product 2 none (the default of the
\* column).
commissionPercentageOf(i) == IF i = 1 THEN 10 ELSE 0

\* The items a client sends: two pieces of a product at its price, and the
\* items a handler may refuse (unknown product, quantity 0, another price).
GoodItems == [productId : ProductIds, quantity : {2}, price : {ProductPrice}]

Items == GoodItems
            \cup {[productId |-> UnknownProduct, quantity |-> 2, price |-> ProductPrice],
                  [productId |-> 1, quantity |-> 0, price |-> ProductPrice],
                  [productId |-> 1, quantity |-> 2, price |-> 2 * ProductPrice]}

\* The items lists of the requests: empty, one item, or a good item
\* followed by any item.
ItemLists == {<<>>} \cup {<<x>> : x \in Items}
                    \cup {<<x, y>> : x \in GoodItems, y \in Items}

ODB == [commission |-> commission, order |-> order, product |-> product]

\* A request of an order handler in flight: i is the index of the item the
\* running loop is at, createdOrders the ids of the orders created so far,
\* commissionPercentage the figure read from the product row.
OrderIdle == [op |-> "none", pc |-> "idle", code |-> 0,
              items |-> <<>>, agentId |-> NoAgent, i |-> 0,
              createdOrders |-> <<>>, commissionPercentage |-> 0]

\* res.status(code).json(...): the handler returns and its locals are gone.
OrderRespond(loc, code) ==
    [OrderIdle EXCEPT !.op = loc.op, !.pc = "done", !.code = code]

\* prisma.order.create: ids are handed out in the order of creation.
orderCreate(db, item, agentId) ==
    [db EXCEPT !.order = Append(@, [productId |-> item.productId,
                                    agentId |-> agentId,
                                    quantity |-> item.quantity])]

\* prisma.commission.create with status PENDING.
commissionCreate(db, userId, orderId, amount) ==
    [db EXCEPT !.commission =
        Append(@, [userId |-> userId, orderId |-> orderId, amount |-> amount,
                   status |-> "PENDING", createdAt |-> Len(@) + 1])]

\* createOrder: head of the loop over the items, with the validation of the
\* item; past the last item the handler answers 201.
createOrderItem(loc) ==
    IF loc.i > Len(loc.items) THEN OrderRespond(loc, 201)
    ELSE IF \/ loc.items[loc.i].productId = 0
            \/ loc.items[loc.i].quantity <= 0
            \/ loc.items[loc.i].price < 0
         THEN OrderRespond(loc, 400)
         ELSE [loc EXCEPT !.pc = "findCustomer"]

\* createOrder: validation of the request body.
createOrderBegin(items, totalAmount, agentId) ==
    LET loc == [OrderIdle EXCEPT !.op = "createOrder", !.items = items,
                                 !.agentId = agentId, !.i = 1]
    IN  IF items = <<>> THEN OrderRespond(loc, 400)
        ELSE IF totalAmount <= 0 THEN OrderRespond(loc, 400)
        ELSE createOrderItem(loc)

\* createOrder: one store round trip and the code up to the next one.  The
\* product is not looked up: an unknown productId breaks the foreign key of
\* Order.productId, the insert throws and the handler answers 500.  The
\* commission is 10 % of price * quantity and belongs to the order just
\* created.
createOrderStep(db, loc) ==
    LET item == loc.items[loc.i]
        next == createOrderItem([loc EXCEPT !.i = @ + 1])
    IN  CASE loc.pc = "findCustomer" ->
                [db |-> db, loc |-> [loc EXCEPT !.pc = "saveCustomer"]]
          [] loc.pc = "saveCustomer" ->
                [db |-> db, loc |-> [loc EXCEPT !.pc = "createOrderRow"]]
          [] loc.pc = "createOrderRow" ->
                IF item.productId \notin DOMAIN db.product
                THEN [db |-> db, loc |-> OrderRespond(loc, 500)]
                ELSE [db |-> orderCreate(db, item, loc.agentId),
                      loc |-> [loc EXCEPT !.pc = "executeRaw",
                                 !.createdOrders = Append(@, Len(db.order) + 1)]]
          [] loc.pc = "executeRaw" ->
                [db |-> db,
                 loc |-> IF loc.agentId # NoAgent
                         THEN [loc EXCEPT !.pc = "createCommission"]
                         ELSE next]
          [] loc.pc = "createCommission" ->
                [db |-> commissionCreate(db, loc.agentId,
                            loc.createdOrders[Len(loc.createdOrders)],
                            (item.price * item.quantity) \div 10),
                 loc |-> next]

\* placeOrder: validation of the request body (a quantity of 0 is falsy).
placeOrderBegin(items, referralAgentId) ==
    LET loc == [OrderIdle EXCEPT !.op = "placeOrder", !.items = items,
                                 !.agentId = referralAgentId, !.i = 1]
    IN  IF items = <<>> THEN OrderRespond(loc, 400)
        ELSE IF \E k \in DOMAIN items : \/ items[k].productId = 0
                                        \/ items[k].quantity = 0
                                        \/ items[k].price = 0
             THEN OrderRespond(loc, 400)
             ELSE [loc EXCEPT !.pc = "verifyProduct"]

\* placeOrder: end of the commission loop's body.
placeOrderNextCommission(loc) ==
    IF loc.i = Len(loc.items) THEN OrderRespond(loc, 201)
    ELSE [loc EXCEPT !.pc = "findProduct", !.i = @ + 1]

\* placeOrder: one store round trip and the code up to the next one.  The
\* first loop checks each item against the stock and the price of its
\* product, the second creates the orders and decrements the stock, the
\* third creates a commission for each item whose product has a commission
\* percentage, all of them attached to the first order created.
placeOrderStep(db, loc) ==
    LET item == loc.items[loc.i]
        last == loc.i = Len(loc.items)
    IN  CASE loc.pc = "verifyProduct" ->
                [db |-> db,
                 loc |-> IF item.productId \notin DOMAIN db.product
                         THEN OrderRespond(loc, 404)
                         ELSE IF db.product[item.productId].stockQuantity < item.quantity
                         THEN OrderRespond(loc, 400)
                         ELSE IF /\ db.product[item.productId].price # 0
                                 /\ db.product[item.productId].price # item.price
                         THEN OrderRespond(loc, 400)
                         ELSE IF last
                         THEN [loc EXCEPT !.pc = "createCustomer", !.i = 1]
                         ELSE [loc EXCEPT !.i = @ + 1]]
          [] loc.pc = "createCustomer" ->
                [db |-> db, loc |-> [loc EXCEPT !.pc = "createOrderRow"]]
          [] loc.pc = "createOrderRow" ->
                [db |-> orderCreate(db, item, loc.agentId),
                 loc |-> [loc EXCEPT !.pc = "decrementStock",
                            !.createdOrders = Append(@, Len(db.order) + 1)]]
          [] loc.pc = "decrementStock" ->
                [db |-> [db EXCEPT !.product[item.productId].stockQuantity =
                                        @ - item.quantity],
                 loc |-> IF ~ last
                         THEN [loc EXCEPT !.pc = "createOrderRow", !.i = @ + 1]
                         ELSE IF loc.agentId # NoAgent
                         THEN [loc EXCEPT !.pc = "findProduct", !.i = 1]
                         ELSE OrderRespond(loc, 201)]
          [] loc.pc = "findProduct" ->
                [db |-> db,
                 loc |-> IF /\ item.productId \in DOMAIN db.product
                            /\ db.product[item.productId].commissionPercentage # 0
                         THEN [loc EXCEPT !.pc = "createCommission",
                                 !.commissionPercentage =
                                     db.product[item.productId].commissionPercentage]
                         ELSE placeOrderNextCommission(loc)]
          [] loc.pc = "createCommission" ->
                [db |-> commissionCreate(db, loc.agentId, loc.createdOrders[1],
                            (item.price * item.quantity * loc.commissionPercentage)
                                \div 100),
                 loc |-> placeOrderNextCommission(loc)]

(***************************************************************************)
(* SpecOrders: the requests of two clients to the order handlers           *)
(* interleave at the awaits, the store never failing.  The shop starts     *)
(* with InitialStock pieces of each product and without orders or          *)
(* commissions; the clients ask for at most MaxOrders order rows in all.   *)
(***************************************************************************)
InitOrders ==
    /\ build = "admin"
    /\ commission = <<>>
    /\ payout = <<>>
    /\ payoutCommission = {}
    /\ order = <<>>
    /\ product = [i \in ProductIds |->
                     [stockQuantity |-> InitialStock, price |-> ProductPrice,
                      commissionPercentage |-> commissionPercentageOf(i)]]
    /\ call = [p \in Procs |-> OrderIdle]

Asked == SumBy({p \in Procs : InFlight(p)},
               [p \in Procs |-> Len(call[p].items) - Len(call[p].createdOrders)])

ReceiveOrder(p, loc) ==
    /\ Len(order) + Asked + Len(loc.items) <= MaxOrders
    /\ call' = [call EXCEPT ![p] = loc]
    /\ UNCHANGED <<build, commission, payout, payoutCommission, product, order>>

CommitOrder(p, r) ==
    /\ commission' = r.db.commission
    /\ order' = r.db.order
    /\ product' = r.db.product
    /\ call' = [call EXCEPT ![p] = r.loc]
    /\ UNCHANGED <<build, payout, payoutCommission>>

createOrderCall(p) ==
    \E items \in ItemLists, totalAmount \in TotalAmounts, agentId \in AgentInputs :
        /\ ~ InFlight(p)
        /\ ReceiveOrder(p, createOrderBegin(items, totalAmount, agentId))

createOrderRoundTrip(p) ==
    /\ InFlight(p)
    /\ call[p].op = "createOrder"
    /\ CommitOrder(p, createOrderStep(ODB, call[p]))

placeOrderCall(p) ==
    \E items \in ItemLists, referralAgentId \in AgentInputs :
        /\ ~ InFlight(p)
        /\ ReceiveOrder(p, placeOrderBegin(items, referralAgentId))

placeOrderRoundTrip(p) ==
    /\ InFlight(p)
    /\ call[p].op = "placeOrder"
    /\ CommitOrder(p, placeOrderStep(ODB, call[p]))

NextOrders ==
    \E p \in Procs :
        \/ createOrderCall(p)
        \/ createOrderRoundTrip(p)
        \/ placeOrderCall(p)
        \/ placeOrderRoundTrip(p)

SpecOrders == InitOrders /\ [][NextOrders]_vars

\* The commissions recorded for order o.
commissionsOf(o) == {c \in DOMAIN commission : commission[c].orderId = o}

Quiet == \A p \in Procs : ~ InFlight(p)

requested(items, i) ==
    SumBy({k \in DOMAIN items : items[k].productId = i},
          [k \in DOMAIN items |-> items[k].quantity])

\* C30 (stock never negative): no step leaves a product with a negative
\* stockQuantity, and placeOrder goes past its stock check only if, for
\* every product, the stock covers the quantity its items ask for together.
C30_StockNeverNegative ==
    [][/\ \A i \in DOMAIN product' : product'[i].stockQuantity >= 0
       /\ \A p \in Procs :
             (/\ call[p].op = "placeOrder"
              /\ call[p].pc = "verifyProduct"
              /\ call'[p].pc = "createCustomer")
                => \A i \in DOMAIN product :
                       requested(call[p].items, i) <= product[i].stockQuantity]_vars

====
